---- MODULE Spec2Model ----
(***************************************************************************)
(* Model of src/app.py: the SerpAPI key pool (load_api_keys' result,       *)
(* get_current_api_key, switch_to_next_api_key), the search and extraction *)
(* routine search_phone_number, and its caller process_excel.              *)
(*                                                                         *)
(* Python strings are modelled as sequences of one-character strings, so   *)
(* that lower(), the substring test `in` and re.search are computed on the *)
(* characters.  Chars gives the characters of every text the model uses.  *)
(* Non-ASCII texts of the source are written with ASCII stand-ins:         *)
(*   "TenpoBango" is the column label '店舗番号', "DenwaBango" is some     *)
(*   other label such as '電話番号'.                                       *)
(*                                                                         *)
(* Six specifications share the variables:                                 *)
(*   Spec        a session in which process_excel calls                    *)
(*               search_phone_number once per row, for every key list;     *)
(*   ExcelSpec   process_excel on every sheet of the model;                *)
(*   PoolSpec    get_current_api_key and switch_to_next_api_key called in  *)
(*               any order from any session state;                         *)
(*   ExtractSpec the extraction of lines 130-158 on every payload;         *)
(*   LoadSpec    load_api_keys on every pair of sources;                   *)
(*   CallSpec    the calls of search_phone_number from any session state.  *)
(*                                                                         *)
(* Left out: the query string and the fixed request parameters (lines      *)
(* 98-112), the sheet-name test (lines 190-192), column 3 and the progress *)
(* display; none of them reaches the key pool, the returned value or       *)
(* column 11.                                                              *)
(***************************************************************************)
EXTENDS Integers, Sequences, FiniteSets, TLC

\* ---------------------------------------------------------------- bounds
MaxKeys == 3
MaxRows == 2
MaxRotations == 5
ConfiguredSlots == 2

\* ------------------------------------------------------------ characters
Chars ==
    "Your account has run out of searches for this month" :> <<"Y", "o", "u", "r", " ", "a", "c", "c", "o", "u", "n", "t", " ", "h", "a", "s", " ", "r", "u", "n", " ", "o", "u", "t", " ", "o", "f", " ", "s", "e", "a", "r", "c", "h", "e", "s", " ", "f", "o", "r", " ", "t", "h", "i", "s", " ", "m", "o", "n", "t", "h">> @@
    "Invalid query parameter" :> <<"I", "n", "v", "a", "l", "i", "d", " ", "q", "u", "e", "r", "y", " ", "p", "a", "r", "a", "m", "e", "t", "e", "r">> @@
    "API Quota exceeded" :> <<"A", "P", "I", " ", "Q", "u", "o", "t", "a", " ", "e", "x", "c", "e", "e", "d", "e", "d">> @@
    "Rate LIMIT reached" :> <<"R", "a", "t", "e", " ", "L", "I", "M", "I", "T", " ", "r", "e", "a", "c", "h", "e", "d">> @@
    "No Credits left" :> <<"N", "o", " ", "C", "r", "e", "d", "i", "t", "s", " ", "l", "e", "f", "t">> @@
    "429 Too Many Requests" :> <<"4", "2", "9", " ", "T", "o", "o", " ", "M", "a", "n", "y", " ", "R", "e", "q", "u", "e", "s", "t", "s">> @@
    "Connection timed out" :> <<"C", "o", "n", "n", "e", "c", "t", "i", "o", "n", " ", "t", "i", "m", "e", "d", " ", "o", "u", "t">> @@
    "Daily Limit hit" :> <<"D", "a", "i", "l", "y", " ", "L", "i", "m", "i", "t", " ", "h", "i", "t">> @@
    "TenpoBango" :> <<"T", "e", "n", "p", "o", "B", "a", "n", "g", "o">> @@
    "DenwaBango" :> <<"D", "e", "n", "w", "a", "B", "a", "n", "g", "o">> @@
    "Unnamed: 10" :> <<"U", "n", "n", "a", "m", "e", "d", ":", " ", "1", "0">> @@
    "Unnamed_10" :> <<"U", "n", "n", "a", "m", "e", "d", "_", "1", "0">> @@
    "03-1234-5678" :> <<"0", "3", "-", "1", "2", "3", "4", "-", "5", "6", "7", "8">> @@
    "06-1111-2222" :> <<"0", "6", "-", "1", "1", "1", "1", "-", "2", "2", "2", "2">> @@
    "06-3333-4444" :> <<"0", "6", "-", "3", "3", "3", "3", "-", "4", "4", "4", "4">> @@
    "Call 0399998888 now" :> <<"C", "a", "l", "l", " ", "0", "3", "9", "9", "9", "9", "8", "8", "8", "8", " ", "n", "o", "w">> @@
    "no number here" :> <<"n", "o", " ", "n", "u", "m", "b", "e", "r", " ", "h", "e", "r", "e">> @@
    "Tel 045-123-4567 or 0399998888" :> <<"T", "e", "l", " ", "0", "4", "5", "-", "1", "2", "3", "-", "4", "5", "6", "7", " ", "o", "r", " ", "0", "3", "9", "9", "9", "9", "8", "8", "8", "8">> @@
    "see 0120-555-1234 today" :> <<"s", "e", "e", " ", "0", "1", "2", "0", "-", "5", "5", "5", "-", "1", "2", "3", "4", " ", "t", "o", "d", "a", "y">> @@
    "id 12345678901234 ref 03-55-6789" :> <<"i", "d", " ", "1", "2", "3", "4", "5", "6", "7", "8", "9", "0", "1", "2", "3", "4", " ", "r", "e", "f", " ", "0", "3", "-", "5", "5", "-", "6", "7", "8", "9">> @@
    "" :> <<>>

UpperCase == {"A", "B", "C", "D", "E", "F", "G", "H", "I", "J", "K", "L", "M",
              "N", "O", "P", "Q", "R", "S", "T", "U", "V", "W", "X", "Y", "Z"}

LowerOf ==
    "A" :> "a" @@ "B" :> "b" @@ "C" :> "c" @@ "D" :> "d" @@ "E" :> "e" @@
    "F" :> "f" @@ "G" :> "g" @@ "H" :> "h" @@ "I" :> "i" @@ "J" :> "j" @@
    "K" :> "k" @@ "L" :> "l" @@ "M" :> "m" @@ "N" :> "n" @@ "O" :> "o" @@
    "P" :> "p" @@ "Q" :> "q" @@ "R" :> "r" @@ "S" :> "s" @@ "T" :> "t" @@
    "U" :> "u" @@ "V" :> "v" @@ "W" :> "w" @@ "X" :> "x" @@ "Y" :> "y" @@
    "Z" :> "z"

Digits == {"0", "1", "2", "3", "4", "5", "6", "7", "8", "9"}

\* str.lower()
lower(s) == [i \in 1..Len(s) |-> IF s[i] \in UpperCase THEN LowerOf[s[i]] ELSE s[i]]

\* the substring test `sub in s`
Contains(sub, s) ==
    \E i \in 0..(Len(s) - Len(sub)) : SubSeq(s, i + 1, i + Len(sub)) = sub

\* Python's None and pandas' NaN
None == "None"
NaN == "NaN"

\* ------------------------------------------------------- the key pool
Keys == {"k1", "k2"}

\* every list load_api_keys can return with at most n entries
KeyLists(n) == UNION {[1..k -> Keys] : k \in 0..n}

\* range(1, 11): the slots SERPAPI_KEY, SERPAPI_KEY2 .. SERPAPI_KEY10
SlotCount == 10

\* "your_serpapi_key_here"
PLACEHOLDER == "your_serpapi_key_here"

\* what a slot of st.secrets or of the environment can hold: nothing, the
\* empty text, the placeholder or a key
SlotValues == {None, "", PLACEHOLDER} \cup Keys

\* the sources whose first n slots hold any value and whose other slots hold
\* nothing
Sources(n) ==
    {[i \in 1..SlotCount |-> IF i <= n THEN f[i] ELSE None] : f \in [1..n -> SlotValues]}

\* the environment in which exactly the keys of the list are set, in order
EnvOf(keys) == [i \in 1..SlotCount |-> IF i <= Len(keys) THEN keys[i] ELSE None]

\* st.secrets: its slots, and the first slot at which st.secrets.get raises
\* (0: it never does)
Secrets(slots, raises_at) == [slots |-> slots, raises_at |-> raises_at]

\* no secrets are configured: the first st.secrets.get raises
NoSecrets == Secrets(EnvOf(<<>>), 1)

\* lines 22-23 and 29-30 on the first n slots: the values appended
Kept(slots, n) ==
    SelectSeq(SubSeq(slots, 1, n), LAMBDA key : key \notin {None, "", PLACEHOLDER})

\* load_api_keys: the list returned
load_api_keys(sec, env) ==
    IF sec.raises_at = 0
    THEN Kept(sec.slots, SlotCount)
    ELSE Kept(sec.slots, sec.raises_at - 1) \o Kept(env, SlotCount)

\* lines 43-59 with the reset of lines 56-57 done on every call
get_current_api_key_reset(keys, index, failed) ==
    IF Len(keys) = 0
    THEN [key |-> None, index |-> index]
    ELSE IF {i \in 0..(Len(keys) - 1) : i \notin failed} = {}
    THEN [key |-> None, index |-> index]
    ELSE [key |-> keys[1], index |-> 0]

\* get_current_api_key: the key returned and the index left in the session
get_current_api_key(keys, index, failed) ==
    IF Len(keys) = 0
    THEN [key |-> None, index |-> index]
    ELSE IF {i \in 0..(Len(keys) - 1) : i \notin failed} = {}
    THEN [key |-> None, index |-> index]
    ELSE LET clamped == IF index >= Len(keys) THEN 0 ELSE index
         IN  [key |-> keys[clamped + 1], index |-> clamped]

\* the scan of switch_to_next_api_key: the first i in 0..n-1, in order, whose
\* (index + 1 + i) % n is not failed; n when there is none
FirstFree(n, index, failed) ==
    LET hits == {i \in 0..(n - 1) : ((index + 1 + i) % n) \notin failed}
    IN  IF hits = {} THEN n
        ELSE CHOOSE i \in hits : \A j \in hits : i <= j

\* lines 61-73 without line 64: the current index is not added to the set
switch_without_mark(keys, index, failed) ==
    IF FirstFree(Len(keys), index, failed) < Len(keys)
    THEN [ok |-> TRUE,
          index |-> (index + 1 + FirstFree(Len(keys), index, failed)) % Len(keys),
          failed |-> failed]
    ELSE [ok |-> FALSE, index |-> index, failed |-> failed]

\* lines 61-73 with the scan cut to the next index only
switch_next_only(keys, index, failed) ==
    IF ((index + 1) % Len(keys)) \notin (failed \cup {index})
    THEN [ok |-> TRUE, index |-> (index + 1) % Len(keys), failed |-> failed \cup {index}]
    ELSE [ok |-> FALSE, index |-> index, failed |-> failed \cup {index}]

\* lines 61-73 without line 70: the index found is not stored
switch_keeps_index(keys, index, failed) ==
    IF FirstFree(Len(keys), index, failed \cup {index}) < Len(keys)
    THEN [ok |-> TRUE, index |-> index, failed |-> failed \cup {index}]
    ELSE [ok |-> FALSE, index |-> index, failed |-> failed \cup {index}]

\* lines 61-73 with the failed set cleared once every key has failed
switch_resets_when_empty(keys, index, failed) ==
    IF FirstFree(Len(keys), index, failed \cup {index}) < Len(keys)
    THEN [ok |-> TRUE,
          index |-> (index + 1 + FirstFree(Len(keys), index, failed \cup {index}))
                       % Len(keys),
          failed |-> failed \cup {index}]
    ELSE [ok |-> FALSE, index |-> index, failed |-> {}]

\* lines 61-73 with the test of line 69 taken out: the next index is taken
\* whether failed or not
switch_ignores_failed(keys, index, failed) ==
    [ok |-> TRUE, index |-> (index + 1) % Len(keys), failed |-> failed \cup {index}]

\* lines 61-73 with line 68 lacking its % len(API_KEYS)
switch_without_wrap(keys, index, failed) ==
    LET hits == {i \in 0..(Len(keys) - 1) : (index + 1 + i) \notin (failed \cup {index})}
    IN  IF hits # {}
        THEN [ok |-> TRUE,
              index |-> index + 1 + (CHOOSE i \in hits : \A j \in hits : i <= j),
              failed |-> failed \cup {index}]
        ELSE [ok |-> FALSE, index |-> index, failed |-> failed \cup {index}]

\* switch_to_next_api_key: its return value and the session state it leaves
switch_to_next_api_key(keys, index, failed) ==
    LET n == Len(keys)
        marked == failed \cup {index}
        i == FirstFree(n, index, marked)
    IN  IF i < n
        THEN [ok |-> TRUE, index |-> (index + 1 + i) % n, failed |-> marked]
        ELSE [ok |-> FALSE, index |-> index, failed |-> marked]

\* ------------------------------------------------------ returned values
\* A value of a cell or of search_phone_number: a Python str (kind "str",
\* its characters in text), one of the fixed texts of the source, a
\* prefixed error text (the message in message), or NaN / None.
Value(kind, text, message) == [kind |-> kind, text |-> text, message |-> message]

Str(chars) == Value("str", chars, "")
NaNValue == Value("NaN", <<>>, "")
NoneValue == Value("None", <<>>, "")
\* "APIキー未設定"
API_KEY_UNSET == Value("api_key_unset", <<>>, "")
\* "全てのAPIキーが上限に達しました"
ALL_KEYS_EXHAUSTED == Value("all_keys_exhausted", <<>>, "")
\* "見つかりませんでした"
NOT_FOUND == Value("not_found", <<>>, "")
\* f"APIエラー: {error_message}"
ApiError(message) == Value("api_error", <<>>, message)
\* f"エラー: {error_str}"
TransportError(message) == Value("error", <<>>, message)

\* pd.isna(v) or v == ""
IsEmptyValue(v) == v.kind = "NaN" \/ (v.kind = "str" /\ v.text = <<>>)

\* ------------------------------------------------ error classification
\* line 121 without .lower(): the keywords are matched case-sensitively
IsQuotaMessage_case_sensitive(message) ==
    \/ Contains(<<"q", "u", "o", "t", "a">>, Chars[message])
    \/ Contains(<<"l", "i", "m", "i", "t">>, Chars[message])
    \/ Contains(<<"c", "r", "e", "d", "i", "t", "s">>, Chars[message])

\* line 121 written `"quota" or "limit" in ...`: a non-empty literal is true
IsQuotaMessage_truthy(message) == TRUE

\* line 121: the in-payload error message names a quota
IsQuotaMessage(message) ==
    \/ Contains(<<"q", "u", "o", "t", "a">>, lower(Chars[message]))
    \/ Contains(<<"l", "i", "m", "i", "t">>, lower(Chars[message]))
    \/ Contains(<<"c", "r", "e", "d", "i", "t", "s">>, lower(Chars[message]))

\* line 163 written as line 121: "credits" is tested and "429" is not
IsQuotaException_as_payload(text) == IsQuotaMessage(text)

\* line 163 taken out: every exception asks for the next key
IsQuotaException_any(text) == TRUE

\* line 163: the text of the exception names a quota
IsQuotaException(text) ==
    \/ Contains(<<"q", "u", "o", "t", "a">>, lower(Chars[text]))
    \/ Contains(<<"l", "i", "m", "i", "t">>, lower(Chars[text]))
    \/ Contains(<<"4", "2", "9">>, Chars[text])


\* ---------------------------------------------- the provider's responses
\* What search.get_dict() gives: an exception (raises, exc_text) or a
\* mapping that may hold "error", "knowledge_graph", "local_results" and
\* "organic_results".
NoResponse ==
    [raises |-> FALSE, exc_text |-> "", has_error |-> FALSE, error |-> "",
     has_kg |-> FALSE, kg_has_phone |-> FALSE, kg_phone |-> "",
     has_local |-> FALSE, local_results |-> <<>>,
     has_organic |-> FALSE, organic_results |-> <<>>]

ErrorMessages ==
    {"Your account has run out of searches for this month",
     "Invalid query parameter", "API Quota exceeded", "Rate LIMIT reached",
     "No Credits left"}

ExceptionTexts ==
    {"429 Too Many Requests", "Connection timed out", "Daily Limit hit",
     "No Credits left"}

KnowledgeGraphs ==
    {[has_kg |-> FALSE, kg_has_phone |-> FALSE, kg_phone |-> ""],
     [has_kg |-> TRUE, kg_has_phone |-> FALSE, kg_phone |-> ""],
     [has_kg |-> TRUE, kg_has_phone |-> TRUE, kg_phone |-> "03-1234-5678"]}

Local(has_phone, phone) == [has_phone |-> has_phone, phone |-> phone]

LocalResults ==
    {[has_local |-> FALSE, local_results |-> <<>>],
     [has_local |-> TRUE, local_results |-> <<>>],
     [has_local |-> TRUE,
      local_results |-> <<Local(TRUE, "06-1111-2222"), Local(TRUE, "06-3333-4444")>>],
     [has_local |-> TRUE,
      local_results |-> <<Local(FALSE, ""), Local(TRUE, "06-3333-4444")>>]}

Snippet(text) == [has_snippet |-> TRUE, snippet |-> text]
NoSnippet == [has_snippet |-> FALSE, snippet |-> ""]

OrganicResults ==
    {[has_organic |-> FALSE, organic_results |-> <<>>],
     [has_organic |-> TRUE,
      organic_results |-> <<Snippet("no number here"),
                            Snippet("Tel 045-123-4567 or 0399998888"),
                            Snippet("Call 0399998888 now")>>],
     [has_organic |-> TRUE,
      organic_results |-> <<Snippet("id 12345678901234 ref 03-55-6789")>>],
     [has_organic |-> TRUE,
      organic_results |-> <<Snippet("Call 0399998888 now"), Snippet("no number here")>>],
     [has_organic |-> TRUE,
      organic_results |-> <<NoSnippet, Snippet("no number here"),
                            Snippet("no number here"),
                            Snippet("see 0120-555-1234 today")>>]}

\* the snippet texts of the model ("" for a result without a snippet)
SnippetTexts ==
    UNION {{og.organic_results[i].snippet : i \in 1..Len(og.organic_results)} :
              og \in OrganicResults}


\* ------------------------------------------------------------ re.search
AllDigits(s, from, n) ==
    /\ from + n - 1 <= Len(s)
    /\ \A k \in from..(from + n - 1) : s[k] \in Digits

IsChar(s, pos, c) == pos <= Len(s) /\ s[pos] = c

\* the three entries of phone_patterns
phone_patterns ==
    << [kind |-> "hyphen", lo1 |-> 2, hi1 |-> 4, lo2 |-> 2, hi2 |-> 4, n3 |-> 4],
       [kind |-> "hyphen", lo1 |-> 3, hi1 |-> 3, lo2 |-> 4, hi2 |-> 4, n3 |-> 4],
       [kind |-> "digits", lo1 |-> 10, hi1 |-> 11, lo2 |-> 0, hi2 |-> 0, n3 |-> 0] >>

\* \d{lo1,hi1}-\d{lo2,hi2}-\d{n3} tried at position i: the pairs of run
\* lengths with which it matches
HyphenRuns(p, s, i) ==
    {r \in (p.lo1..p.hi1) \X (p.lo2..p.hi2) :
        /\ AllDigits(s, i, r[1])
        /\ IsChar(s, i + r[1], "-")
        /\ AllDigits(s, i + r[1] + 1, r[2])
        /\ IsChar(s, i + r[1] + 1 + r[2], "-")
        /\ AllDigits(s, i + r[1] + r[2] + 2, p.n3)}

\* the least and the greatest member of a set of numbers
Least(S) == CHOOSE a \in S : \A b \in S : a <= b
Greatest(S) == CHOOSE a \in S : \A b \in S : a >= b

\* the pair a greedy match takes: the longest first run, then the longest
\* second run
Greedy(runs) ==
    CHOOSE r \in runs : \A q \in runs : r[1] > q[1] \/ (r[1] = q[1] /\ r[2] >= q[2])

HyphenLen(p, runs) ==
    IF runs = {} THEN 0 ELSE Greedy(runs)[1] + Greedy(runs)[2] + 2 + p.n3

DigitsLen(lens) == IF lens = {} THEN 0 ELSE Greatest(lens)

\* length of the match of pattern p at position i, 0 when p does not match
\* there
MatchLenAt(p, s, i) ==
    IF p.kind = "hyphen"
    THEN HyphenLen(p, HyphenRuns(p, s, i))
    ELSE DigitsLen({n \in p.lo1..p.hi1 : AllDigits(s, i, n)})

NoMatch == [found |-> FALSE, group |-> <<>>]

\* the match that starts at the first of the positions in starts
GroupAt(p, s, starts) ==
    IF starts = {} THEN NoMatch
    ELSE [found |-> TRUE,
          group |-> SubSeq(s, Least(starts),
                           Least(starts) + MatchLenAt(p, s, Least(starts)) - 1)]

\* re.search(p, s): the leftmost match; match.group() in group
re_search(p, s) == GroupAt(p, s, {i \in 1..Len(s) : MatchLenAt(p, s, i) > 0})

\* the match of the first of the patterns numbered in hits
FirstPattern(snippet, hits) ==
    IF hits = {} THEN NoMatch ELSE re_search(phone_patterns[Least(hits)], snippet)

\* lines 153-156: the patterns in order on one snippet
SnippetMatch(snippet) ==
    FirstPattern(snippet, {k \in 1..Len(phone_patterns) :
                              re_search(phone_patterns[k], snippet).found})

\* result.get("snippet", "")
SnippetOf(result) == IF result.has_snippet THEN result.snippet ELSE ""

\* SnippetMatch, computed once for every snippet text of the model
PhoneIn == [t \in SnippetTexts |-> SnippetMatch(Chars[t])]

\* line 144 without the slice: every organic result is scanned
every_result(organic_results) == organic_results

\* organic_results[:3]
FirstThree(organic_results) ==
    SubSeq(organic_results, 1,
           IF Len(organic_results) < 3 THEN Len(organic_results) ELSE 3)

\* the match in the first of the results numbered in hits
FirstSnippet(first, hits) ==
    IF hits = {} THEN NoMatch ELSE PhoneIn[SnippetOf(first[Least(hits)])]

\* lines 143-156: the first three organic results in order
OrganicMatch(organic_results) ==
    FirstSnippet(FirstThree(organic_results),
                 {j \in 1..Len(FirstThree(organic_results)) :
                     PhoneIn[SnippetOf(FirstThree(organic_results)[j])].found})

\* the value of lines 155-158 for the outcome of the scan
MatchValue(match) == IF match.found THEN Str(match.group) ELSE NOT_FOUND

\* lines 130-158 with the local results consulted before the knowledge graph
extract_local_first(results) ==
    IF /\ results.has_local
       /\ Len(results.local_results) > 0
       /\ results.local_results[1].has_phone
    THEN Str(Chars[results.local_results[1].phone])
    ELSE IF results.has_kg /\ results.kg_has_phone
    THEN Str(Chars[results.kg_phone])
    ELSE IF results.has_organic
    THEN MatchValue(OrganicMatch(results.organic_results))
    ELSE NOT_FOUND

\* lines 130-158: the value returned for a response without an error field
extract(results) ==
    IF results.has_kg /\ results.kg_has_phone
    THEN Str(Chars[results.kg_phone])
    ELSE IF /\ results.has_local
            /\ Len(results.local_results) > 0
            /\ results.local_results[1].has_phone
    THEN Str(Chars[results.local_results[1].phone])
    ELSE IF results.has_organic
    THEN MatchValue(OrganicMatch(results.organic_results))
    ELSE NOT_FOUND

\* the mappings without an "error" field
Payloads ==
    {[raises |-> FALSE, exc_text |-> "", has_error |-> FALSE, error |-> "",
      has_kg |-> kg.has_kg, kg_has_phone |-> kg.kg_has_phone,
      kg_phone |-> kg.kg_phone,
      has_local |-> lr.has_local, local_results |-> lr.local_results,
      has_organic |-> og.has_organic, organic_results |-> og.organic_results] :
         kg \in KnowledgeGraphs, lr \in LocalResults, og \in OrganicResults}

\* the answers the provider gives during a run: every exception, every error
\* message, and the payloads with a knowledge graph only or with local and
\* organic results only
Responses ==
    {[NoResponse EXCEPT !.raises = TRUE, !.exc_text = t] : t \in ExceptionTexts}
    \cup {[NoResponse EXCEPT !.has_error = TRUE, !.error = m] : m \in ErrorMessages}
    \cup {p \in Payloads :
             \/ ~p.has_local /\ ~p.has_organic
             \/ ~p.has_kg /\ Len(p.local_results) = 2 /\ Len(p.organic_results) = 3}

\* ------------------------------------------------------- the workbooks
TENPO_BANGO == "TenpoBango"

\* column labels pandas gives column 11: the text of its header cell, or
\* "Unnamed: 10" for a blank header cell
Headers == {TENPO_BANGO, "Unnamed: 10", "DenwaBango"}

StoreNames == {NaNValue, Str(<<"A">>)}
PhoneCells == {NoneValue, Str(<<"0", "3", "1", "2", "3", "4", "5", "6", "7", "8">>)}

Rows == [store_name : StoreNames, k : PhoneCells]

\* the sheets with at most n data rows; has_k: the sheet has 11 columns or more
Workbooks(n) ==
    {[has_k |-> TRUE, header |-> h, rows |-> r] :
        h \in Headers, r \in UNION {[1..m -> Rows] : m \in 0..n}}
    \cup {[has_k |-> FALSE, header |-> "",
           rows |-> [i \in 1..Len(nm) |-> [store_name |-> nm[i], k |-> NoneValue]]] :
              nm \in UNION {[1..m -> StoreNames] : m \in 0..n}}

\* the sheets with m <= n data rows, each with a store name and a blank
\* column 11 under the label '店舗番号': every row is searched
CallSheets(n) ==
    {[has_k |-> TRUE, header |-> TENPO_BANGO,
      rows |-> [i \in 1..m |-> [store_name |-> Str(<<"A">>), k |-> NoneValue]]] :
         m \in 0..n}

\* pd.read_excel on one cell: a blank cell is read as NaN
ReadCell(c) == IF c = NoneValue THEN NaNValue ELSE c

\* ------------------------------------------------------------ the state
VARIABLES
    secrets,                \* st.secrets as load_api_keys reads it
    environ,                \* os.environ after load_dotenv
    API_KEYS,               \* the list load_api_keys returned
    current_api_key_index,  \* st.session_state.current_api_key_index
    failed_api_keys,        \* st.session_state.failed_api_keys
    uploaded_file,          \* the sheet as uploaded (never written)
    output,                 \* column 11 of the saved workbook, row by row
    df,                     \* the DataFrame of process_excel
    idx,                    \* rows of df already iterated
    pc,                     \* where the run stands
    current_key,            \* search_phone_number: current_key
    retry,                  \* search_phone_number: retry
    results,                \* search_phone_number: the response in hand
    phone_number,           \* the value search_phone_number returned
    exit,                   \* the return statement it left by
    requests,               \* requests of the call in hand: index and key used
    entry_pool,             \* index and failed set when the call was entered
    searched,               \* rows passed to search_phone_number
    calls,                  \* the calls that returned: row, value, requests
    pool_log                \* rotations so far, the last return values

vars == <<secrets, environ, API_KEYS, current_api_key_index, failed_api_keys, uploaded_file, output,
          df, idx, pc, current_key, retry, results, phone_number, exit, requests,
          entry_pool, searched, calls, pool_log>>

loaded == <<secrets, environ, API_KEYS>>
pool == <<current_api_key_index, failed_api_keys>>
call_locals == <<current_key, retry, results, phone_number, exit, requests, entry_pool>>
sheet == <<uploaded_file, output, df, idx, searched, calls>>

NoDataFrame == [k_name |-> "", k |-> <<>>, has_new |-> FALSE, new |-> <<>>]

PoolLog(index, failed) ==
    [start_index |-> index, start_failed |-> failed, rotations |-> 0,
     rotate_ok |-> TRUE, current |-> None]

NoSheet == [has_k |-> FALSE, header |-> "", rows |-> <<>>]

\* lines 35-41: API_KEYS is loaded from the environment; the session holds
\* index and failed
Session(keys, index, failed) ==
    /\ secrets = NoSecrets
    /\ environ = EnvOf(keys)
    /\ API_KEYS = keys
    /\ current_api_key_index = index
    /\ failed_api_keys = failed
    /\ pool_log = PoolLog(index, failed)

\* the sheet in file has been uploaded and not yet processed
Uploaded(file) ==
    /\ uploaded_file = file
    /\ output = <<>>
    /\ df = NoDataFrame
    /\ idx = 0
    /\ searched = {}
    /\ calls = <<>>

\* no call of search_phone_number is in hand; payload is the response held
NoCall(payload) ==
    /\ current_key = None
    /\ retry = 0
    /\ results = payload
    /\ phone_number = NoneValue
    /\ exit = "none"
    /\ requests = <<>>
    /\ entry_pool = [index |-> 0, failed |-> {}, rotations |-> 0]

\* a fresh session with any key list and a sheet whose every row is searched
Init ==
    \E keys \in KeyLists(MaxKeys), file \in CallSheets(MaxRows) :
        /\ Session(keys, 0, {})
        /\ Uploaded(file)
        /\ NoCall(NoResponse)
        /\ pc = "upload"

\* a fresh session with no key or two keys and any sheet
ExcelInit ==
    \E keys \in {<<>>, <<"k1", "k2">>}, file \in Workbooks(MaxRows) :
        /\ Session(keys, 0, {})
        /\ Uploaded(file)
        /\ NoCall(NoResponse)
        /\ pc = "upload"

\* ------------------------------------------------------- process_excel
\* lines 206-219: the label of column 11 in df
ColumnKName(label) ==
    IF label # TENPO_BANGO /\ ~Contains(<<"U", "n", "n", "a", "m", "e", "d">>, Chars[label])
    THEN label
    ELSE TENPO_BANGO

\* lines 185-228: read the sheet into df, add and name column 11
ReadExcel ==
    /\ pc = "upload"
    /\ LET n == Len(uploaded_file.rows)
           label == IF uploaded_file.has_k THEN uploaded_file.header ELSE "Unnamed_10"
       IN  df' = [k_name |-> ColumnKName(label),
                  k |-> [i \in 1..n |->
                            IF uploaded_file.has_k
                            THEN ReadCell(uploaded_file.rows[i].k)
                            ELSE Str(<<>>)],
                  has_new |-> FALSE,
                  new |-> <<>>]
    /\ idx' = 0
    /\ pc' = "rows"
    /\ UNCHANGED <<loaded, pool, uploaded_file, output, call_locals, searched,
                   calls, pool_log>>

\* row.get('店舗番号', '') on the row iterrows yields
CurrentPhone(frame, i) ==
    IF frame.k_name = TENPO_BANGO THEN frame.k[i] ELSE Str(<<>>)

\* df.at[i, '店舗番号'] = value
SetPhone(frame, i, value) ==
    IF frame.k_name = TENPO_BANGO
    THEN [frame EXCEPT !.k[i] = value]
    ELSE IF frame.has_new
    THEN [frame EXCEPT !.new[i] = value]
    ELSE [frame EXCEPT !.has_new = TRUE,
                       !.new = [j \in 1..Len(frame.k) |->
                                   IF j = i THEN value ELSE NaNValue]]

\* whether df has a column labelled '店舗番号'
HasPhoneColumn(frame) == frame.k_name = TENPO_BANGO \/ frame.has_new

\* df.at[i, '店舗番号']
GetPhone(frame, i) ==
    IF frame.k_name = TENPO_BANGO THEN frame.k[i] ELSE frame.new[i]

\* lines 236-238: the row is searched
NeedsSearch(frame, store_name, i) ==
    /\ store_name.kind # "NaN"
    /\ store_name # Str(<<>>)
    /\ IsEmptyValue(CurrentPhone(frame, i))

\* ------------------------------------------------- search_phone_number
\* lines 118-128 and 160-170: the response asks for the next key
IsQuotaResponse(resp) ==
    IF resp.raises
    THEN IsQuotaException(resp.exc_text)
    ELSE resp.has_error /\ IsQuotaMessage(resp.error)

\* lines 117-158 and 160-170: the value returned for a response that does
\* not ask for the next key
ValueOf(resp) ==
    IF resp.raises THEN TransportError(resp.exc_text)
    ELSE IF resp.has_error THEN ApiError(resp.error)
    ELSE extract(resp)

\* lines 87-88 taken out: an empty key list goes on to line 90
NoKeys_unchecked(keys) == FALSE

\* line 87: not API_KEYS
NoKeys(keys) == Len(keys) = 0

\* line 94 one short
max_retries_short(keys) == Len(keys) - 1

\* line 94
max_retries(keys) == Len(keys)

\* lines 96-172: one pass of the retry loop on response resp, with retry = r:
\* the session state it leaves, and either the next pass (next = "request",
\* with its key) or the value returned
LoopPass(resp, keys, index, failed, key, r) ==
    LET sw == switch_to_next_api_key(keys, index, failed)
        g == get_current_api_key(keys, sw.index, sw.failed)
    IN  IF ~IsQuotaResponse(resp)
        THEN [next |-> "returned", value |-> ValueOf(resp), exit |-> "in_loop",
              index |-> index, failed |-> failed, key |-> key,
              rotated |-> FALSE, ok |-> FALSE, current |-> FALSE]
        ELSE IF ~sw.ok
        THEN [next |-> "returned", value |-> ALL_KEYS_EXHAUSTED, exit |-> "in_loop",
              index |-> sw.index, failed |-> sw.failed, key |-> key,
              rotated |-> TRUE, ok |-> FALSE, current |-> FALSE]
        ELSE IF r + 1 < max_retries(keys)
        THEN [next |-> "request", value |-> NoneValue, exit |-> "none",
              index |-> g.index, failed |-> sw.failed, key |-> g.key,
              rotated |-> TRUE, ok |-> TRUE, current |-> TRUE]
        ELSE [next |-> "returned", value |-> ALL_KEYS_EXHAUSTED, exit |-> "fall_through",
              index |-> g.index, failed |-> sw.failed, key |-> g.key,
              rotated |-> TRUE, ok |-> TRUE, current |-> TRUE]

\* lines 230-242 and 87-94: the next row of df; a row that needs a search
\* enters search_phone_number, up to the first pass of its loop
RowStep ==
    /\ pc = "rows"
    /\ idx < Len(df.k)
    /\ LET i == idx + 1
           g == get_current_api_key(API_KEYS, current_api_key_index, failed_api_keys)
       IN  IF ~NeedsSearch(df, uploaded_file.rows[i].store_name, i)
           THEN /\ idx' = idx + 1
                /\ UNCHANGED <<pc, pool, call_locals, searched, pool_log>>
           ELSE /\ searched' = searched \cup {i}
                /\ entry_pool' = [index |-> current_api_key_index,
                                  failed |-> failed_api_keys,
                                  rotations |-> pool_log.rotations]
                /\ results' = NoResponse
                /\ requests' = <<>>
                /\ retry' = 0
                /\ idx' = idx
                /\ UNCHANGED failed_api_keys
                /\ IF NoKeys(API_KEYS)
                   THEN /\ phone_number' = API_KEY_UNSET
                        /\ exit' = "no_keys"
                        /\ pc' = "returned"
                        /\ UNCHANGED <<current_api_key_index, current_key, pool_log>>
                   ELSE /\ current_api_key_index' = g.index
                        /\ current_key' = g.key
                        /\ pool_log' = [pool_log EXCEPT !.current = g.key]
                        /\ IF g.key = None
                           THEN /\ phone_number' = ALL_KEYS_EXHAUSTED
                                /\ exit' = "no_current"
                                /\ pc' = "returned"
                           ELSE /\ phone_number' = NoneValue
                                /\ exit' = "none"
                                /\ pc' = "request"
    /\ UNCHANGED <<loaded, uploaded_file, output, df, calls>>

\* the state a pass p of the loop leaves after the request that got resp
Pass(resp, p) ==
    /\ requests' = Append(requests, [index |-> current_api_key_index,
                                     key |-> current_key])
    /\ results' = resp
    /\ current_api_key_index' = p.index
    /\ failed_api_keys' = p.failed
    /\ current_key' = p.key
    /\ phone_number' = p.value
    /\ exit' = p.exit
    /\ pc' = p.next
    /\ retry' = IF p.next = "request" THEN retry + 1 ELSE retry
    /\ pool_log' = [pool_log EXCEPT
           !.rotations = IF p.rotated THEN @ + 1 ELSE @,
           !.rotate_ok = IF p.rotated THEN p.ok ELSE @,
           !.current = IF p.current THEN p.key ELSE @]

\* lines 96-172: the request of one pass is issued with current_key, the
\* provider answers resp, and the pass runs to its continue or return
Attempt(resp) ==
    /\ pc = "request"
    /\ Pass(resp, LoopPass(resp, API_KEYS, current_api_key_index, failed_api_keys,
                           current_key, retry))
    /\ UNCHANGED <<loaded, entry_pool, sheet>>

\* lines 243-249 with the row loop left when the search did not give a phone
RowAssign_stops_on_failure ==
    /\ pc = "returned"
    /\ df' = SetPhone(df, idx + 1, phone_number)
    /\ calls' = Append(calls, [row |-> idx + 1, value |-> phone_number,
                               requests |-> Len(requests), exit |-> exit])
    /\ idx' = IF phone_number.kind = "str" THEN idx + 1 ELSE Len(df.k)
    /\ pc' = "rows"
    /\ current_key' = None
    /\ retry' = 0
    /\ results' = NoResponse
    /\ phone_number' = NoneValue
    /\ exit' = "none"
    /\ requests' = <<>>
    /\ UNCHANGED <<loaded, pool, uploaded_file, output, entry_pool, searched, pool_log>>

\* lines 243-249: the returned value is stored in df and the loop moves on
RowAssign ==
    /\ pc = "returned"
    /\ df' = SetPhone(df, idx + 1, phone_number)
    /\ calls' = Append(calls, [row |-> idx + 1, value |-> phone_number,
                               requests |-> Len(requests), exit |-> exit])
    /\ idx' = idx + 1
    /\ pc' = "rows"
    /\ current_key' = None
    /\ retry' = 0
    /\ results' = NoResponse
    /\ phone_number' = NoneValue
    /\ exit' = "none"
    /\ requests' = <<>>
    /\ UNCHANGED <<loaded, pool, uploaded_file, output, entry_pool, searched, pool_log>>

\* lines 251-271: column '店舗番号' of df is written to column 11 of every
\* data row and the workbook saved; without such a column df.at raises
WriteBack ==
    /\ pc = "rows"
    /\ idx = Len(df.k)
    /\ IF Len(df.k) > 0 /\ ~HasPhoneColumn(df)
       THEN /\ pc' = "raised"
            /\ UNCHANGED output
       ELSE /\ pc' = "saved"
            /\ output' = [i \in 1..Len(df.k) |-> GetPhone(df, i)]
    /\ UNCHANGED <<loaded, pool, uploaded_file, df, idx, call_locals, searched,
                   calls, pool_log>>

Next ==
    \/ ReadExcel
    \/ RowStep
    \/ \E resp \in Responses : Attempt(resp)
    \/ RowAssign
    \/ WriteBack

Spec == Init /\ [][Next]_vars

ExcelSpec == ExcelInit /\ [][Next]_vars

\* --------------------------------- the calls from any session state
\* the list of n keys "k1", "k2", "k1", ..
KeyList(n) == [i \in 1..n |-> IF i % 2 = 1 THEN "k1" ELSE "k2"]

\* any index and any failed set over a key list of every length from 1 on,
\* and a sheet whose every row is searched
CallInit ==
    \E n \in 1..MaxKeys, file \in CallSheets(MaxRows) :
        \E index \in 0..(n - 1), failed \in SUBSET (0..(n - 1)) :
            /\ Session(KeyList(n), index, failed)
            /\ Uploaded(file)
            /\ NoCall(NoResponse)
            /\ pc = "upload"

CallSpec == CallInit /\ [][Next]_vars

\* ------------------------------------------ the pool operations alone
\* any session state over any non-empty key list
PoolInit ==
    \E keys \in KeyLists(MaxKeys) \ {<<>>} :
        \E index \in 0..(Len(keys) - 1), failed \in SUBSET (0..(Len(keys) - 1)) :
            /\ Session(keys, index, failed)
            /\ Uploaded(NoSheet)
            /\ NoCall(NoResponse)
            /\ pc = "pool"

\* lines 61-73: a call of switch_to_next_api_key
PoolRotate ==
    /\ pc = "pool"
    /\ pool_log.rotations < MaxRotations
    /\ current_api_key_index' =
           switch_to_next_api_key(API_KEYS, current_api_key_index, failed_api_keys).index
    /\ failed_api_keys' =
           switch_to_next_api_key(API_KEYS, current_api_key_index, failed_api_keys).failed
    /\ pool_log' = [pool_log EXCEPT
           !.rotations = @ + 1,
           !.rotate_ok = switch_to_next_api_key(API_KEYS, current_api_key_index,
                                                failed_api_keys).ok]
    /\ UNCHANGED <<loaded, pc, call_locals, sheet>>

\* lines 43-59: a call of get_current_api_key
PoolCurrent ==
    /\ pc = "pool"
    /\ current_api_key_index' =
           get_current_api_key(API_KEYS, current_api_key_index, failed_api_keys).index
    /\ pool_log' = [pool_log EXCEPT
           !.current = get_current_api_key(API_KEYS, current_api_key_index,
                                           failed_api_keys).key]
    /\ UNCHANGED <<loaded, failed_api_keys, pc, call_locals, sheet>>

PoolNext == PoolRotate \/ PoolCurrent

PoolSpec == PoolInit /\ [][PoolNext]_vars

\* ------------------------------------------------- the extraction alone
\* a response without an error field is in hand
ExtractInit ==
    \E payload \in Payloads :
        /\ Session(<<"k1">>, 0, {})
        /\ Uploaded(NoSheet)
        /\ NoCall(payload)
        /\ pc = "payload"

\* lines 130-158
Extract ==
    /\ pc = "payload"
    /\ phone_number' = extract(results)
    /\ pc' = "extracted"
    /\ UNCHANGED <<loaded, pool, current_key, retry, results, exit, requests,
                   entry_pool, sheet, pool_log>>

ExtractNext == Extract

ExtractSpec == ExtractInit /\ [][ExtractNext]_vars

\* ------------------------------------------------- load_api_keys alone
\* any secrets and any environment with values in their first slots; the
\* keys are not loaded yet
LoadInit ==
    \E s \in Sources(ConfiguredSlots), r \in 0..(ConfiguredSlots + 1),
       e \in Sources(ConfiguredSlots) :
        /\ secrets = Secrets(s, r)
        /\ environ = e
        /\ API_KEYS = <<>>
        /\ current_api_key_index = 0
        /\ failed_api_keys = {}
        /\ pool_log = PoolLog(0, {})
        /\ Uploaded(NoSheet)
        /\ NoCall(NoResponse)
        /\ pc = "load"

\* lines 13-35
Load ==
    /\ pc = "load"
    /\ API_KEYS' = load_api_keys(secrets, environ)
    /\ pc' = "loaded"
    /\ UNCHANGED <<secrets, environ, pool, call_locals, sheet, pool_log>>

LoadNext == Load

LoadSpec == LoadInit /\ [][LoadNext]_vars

\* =====================================================================
\* Properties
\* =====================================================================
Indices == 0..(Len(API_KEYS) - 1)

QuotaErrors == {"API Quota exceeded", "Rate LIMIT reached", "No Credits left"}

RunOutMessage == "Your account has run out of searches for this month"

\* the message holds none of "quota", "limit", "credits" in any case
NoQuotaKeyword(message) ==
    /\ ~Contains(<<"q", "u", "o", "t", "a">>, lower(Chars[message]))
    /\ ~Contains(<<"l", "i", "m", "i", "t">>, lower(Chars[message]))
    /\ ~Contains(<<"c", "r", "e", "d", "i", "t", "s">>, lower(Chars[message]))

\* C1: a pass of the loop that receives an error field naming a quota, a
\* limit or credits (in any case) while another key is not failed marks the
\* current index failed, moves to an index that is not failed, and stays in
\* the loop with that index's key as current_key for the next request; it
\* does not return an API error.
C1_QuotaErrorRotates ==
    [][(/\ pc = "request"
        /\ results'.has_error
        /\ ~results'.raises
        /\ results'.error \in QuotaErrors
        /\ Indices \ (failed_api_keys \cup {current_api_key_index}) # {})
       => (/\ Len(requests') = Len(requests) + 1
           /\ failed_api_keys' = failed_api_keys \cup {current_api_key_index}
           /\ current_api_key_index' \in Indices \ failed_api_keys'
           /\ current_key' = API_KEYS[current_api_key_index' + 1]
           /\ pc' = "request"
           /\ phone_number'.kind # "api_error")]_vars

\* C1 witness: "Rate LIMIT reached" on key 0 left the call in its loop on key 1
C1_Witness ==
    /\ pc = "request"
    /\ Len(requests) = 1
    /\ results.has_error
    /\ results.error = "Rate LIMIT reached"
    /\ failed_api_keys = {0}
    /\ current_api_key_index = 1
    /\ current_key = API_KEYS[2]

\* C2: with two keys not failed when the call is entered, the error field
\* "Your account has run out of searches for this month" on the first
\* request makes the call rotate once and stay in its loop rather than
\* return an API error.
C2_RunOutRotates ==
    (/\ results.has_error
     /\ results.error = RunOutMessage
     /\ Len(requests) = 1
     /\ Cardinality(Indices \ entry_pool.failed) = 2)
    => (/\ pc = "request"
        /\ pool_log.rotations = entry_pool.rotations + 1
        /\ phone_number.kind # "api_error")

CurrentKey ==
    get_current_api_key(API_KEYS, current_api_key_index, failed_api_keys).key

\* C4: from the loaded state (index 0, nothing failed) of a pool of N >= 1
\* keys, after r < N calls of switch_to_next_api_key all of them returned
\* true and get_current_api_key returns a key; the N-th call returns false;
\* after N calls or more get_current_api_key returns None.
C4_DepletedAfterN ==
    (pool_log.start_index = 0 /\ pool_log.start_failed = {})
    => (/\ pool_log.rotations < Len(API_KEYS) =>
              /\ CurrentKey # None
              /\ \E i \in 1..Len(API_KEYS) : CurrentKey = API_KEYS[i]
              /\ pool_log.rotate_ok
        /\ pool_log.rotations = Len(API_KEYS) => ~pool_log.rotate_ok
        /\ pool_log.rotations >= Len(API_KEYS) => CurrentKey = None)

\* C4 witness: the third rotation of a loaded pool of three keys returned
\* false and left no current key
C4_Witness ==
    /\ pc = "pool"
    /\ pool_log.start_index = 0
    /\ pool_log.start_failed = {}
    /\ Len(API_KEYS) = 3
    /\ pool_log.rotations = 3
    /\ ~pool_log.rotate_ok
    /\ failed_api_keys = {0, 1, 2}
    /\ CurrentKey = None

\* indices met after index a, up to and including index b, scanning forward
\* cyclically over n indices
StepsTo(n, a, b) == ((b - a - 1 + n) % n) + 1

\* C5: a call of switch_to_next_api_key adds the current index to the failed
\* set; if some index is then not failed it returns true and the new index
\* is the one not failed that the cyclic forward scan from index + 1 meets
\* first; otherwise it returns false and the index stays.
C5_RotateScansForward ==
    [][pool_log'.rotations = pool_log.rotations + 1
       => (/\ failed_api_keys' = failed_api_keys \cup {current_api_key_index}
           /\ IF Indices \ failed_api_keys' # {}
              THEN /\ pool_log'.rotate_ok
                   /\ current_api_key_index' \in Indices \ failed_api_keys'
                   /\ \A j \in Indices \ failed_api_keys' :
                          StepsTo(Len(API_KEYS), current_api_key_index,
                                  current_api_key_index')
                          <= StepsTo(Len(API_KEYS), current_api_key_index, j)
              ELSE /\ ~pool_log'.rotate_ok
                   /\ current_api_key_index' = current_api_key_index)]_vars

\* C5 witness: from index 1 with index 2 already failed, one rotation of a
\* pool of three wrapped past index 2 to index 0
C5_Witness ==
    /\ pc = "pool"
    /\ Len(API_KEYS) = 3
    /\ pool_log.start_index = 1
    /\ pool_log.start_failed = {2}
    /\ pool_log.rotations = 1
    /\ pool_log.rotate_ok
    /\ current_api_key_index = 0
    /\ failed_api_keys = {1, 2}

\* the responses the code takes as a request for the next key
QuotaClass(resp) ==
    \/ resp.raises /\ resp.exc_text \in {"429 Too Many Requests", "Daily Limit hit"}
    \/ ~resp.raises /\ resp.has_error /\ resp.error \in QuotaErrors

\* C6: a call returns the all-keys-exhausted text only when every index is
\* in the failed set, and then its last response, if it made a request, was
\* of the quota class; a call whose last response is not of the quota class
\* returns a phone number, not-found or an error text.
C6_ExhaustedOnlyWhenAllFailed ==
    /\ (pc = "returned" /\ phone_number = ALL_KEYS_EXHAUSTED)
       => (/\ Len(API_KEYS) >= 1
           /\ failed_api_keys = Indices
           /\ requests # <<>> => QuotaClass(results))
    /\ (pc = "returned" /\ requests # <<>> /\ ~QuotaClass(results))
       => phone_number.kind \in {"str", "not_found", "api_error", "error"}
    /\ \A i \in 1..Len(calls) :
          calls[i].value = ALL_KEYS_EXHAUSTED => failed_api_keys = Indices

\* C6 witness: one call went through all three keys before it returned the
\* all-keys-exhausted text
C6_Witness ==
    /\ pc = "returned"
    /\ phone_number = ALL_KEYS_EXHAUSTED
    /\ Len(API_KEYS) = 3
    /\ Len(requests) = 3
    /\ failed_api_keys = {0, 1, 2}

\* C7: once a call has returned the all-keys-exhausted text, every later
\* call returns it too and issues no request; the failed set stays full and
\* get_current_api_key returns None.
C7_ExhaustedRecurs ==
    \A i \in 1..Len(calls) :
        calls[i].value = ALL_KEYS_EXHAUSTED
        => (/\ \A j \in (i + 1)..Len(calls) :
                  calls[j].value = ALL_KEYS_EXHAUSTED /\ calls[j].requests = 0
            /\ pc # "request"
            /\ pc = "returned" => (phone_number = ALL_KEYS_EXHAUSTED /\ requests = <<>>)
            /\ failed_api_keys = Indices
            /\ CurrentKey = None)

\* C7 witness: a call that made requests returned the text, and so did the
\* next call, without a request
C7_Witness ==
    /\ Len(calls) = 2
    /\ calls[1].value = ALL_KEYS_EXHAUSTED
    /\ calls[1].requests >= 1
    /\ calls[2].value = ALL_KEYS_EXHAUSTED
    /\ calls[2].requests = 0

\* C8 (as stated): a call issues at most N requests and no two of them with
\* the same key.
C8_DistinctCredentials ==
    /\ Len(requests) <= Len(API_KEYS)
    /\ \A i, j \in 1..Len(requests) : i # j => requests[i].key # requests[j].key

\* C8 (amended): a call issues at most N requests, each with the key of the
\* index current at that time, no two of them with the same index, and a
\* further request can be issued only while fewer than N were made.
C8_AtMostNRequests ==
    /\ Len(requests) <= Len(API_KEYS)
    /\ pc = "request" => Len(requests) < Len(API_KEYS)
    /\ \A i \in 1..Len(requests) :
          /\ requests[i].index \in Indices
          /\ requests[i].key = API_KEYS[requests[i].index + 1]
    /\ \A i, j \in 1..Len(requests) : i # j => requests[i].index # requests[j].index
    /\ \A i \in 1..Len(calls) : calls[i].requests <= Len(API_KEYS)

\* C8 witness: a call that issued as many requests as there are keys, three
C8_Witness ==
    /\ pc = "returned"
    /\ Len(API_KEYS) = 3
    /\ Len(requests) = 3
    /\ {requests[i].index : i \in 1..3} = {0, 1, 2}

\* C9: a row whose column-11 cell is not empty in the uploaded sheet is never
\* passed to search_phone_number, and the saved workbook holds the same value
\* in that cell, whatever the label of column 11.
C9_FilledRowsUntouched ==
    \A i \in 1..Len(uploaded_file.rows) :
        (uploaded_file.has_k /\ uploaded_file.rows[i].k # NoneValue)
        => (/\ i \notin searched
            /\ pc = "saved" => output[i] = uploaded_file.rows[i].k)

\* the response in hand has a knowledge graph with a phone
KgPhone == results.has_kg /\ results.kg_has_phone

\* the response in hand has local results whose first entry has a phone
FirstLocalPhone ==
    /\ results.has_local
    /\ Len(results.local_results) > 0
    /\ results.local_results[1].has_phone

\* C10: on a response without an error field, the knowledge-graph phone is
\* returned when there is one, whatever the local and organic results hold;
\* otherwise the phone of the first local result when it has one; only
\* otherwise the value comes from the organic snippets: a text found in one
\* of them, or not-found.
C10_ExtractionPriority ==
    pc = "extracted"
    => (/\ KgPhone => phone_number = Str(Chars[results.kg_phone])
        /\ (~KgPhone /\ FirstLocalPhone)
           => phone_number = Str(Chars[results.local_results[1].phone])
        /\ (~KgPhone /\ ~FirstLocalPhone)
           => \/ phone_number = NOT_FOUND
              \/ /\ phone_number.kind = "str"
                 /\ results.has_organic
                 /\ \E j \in 1..Len(results.organic_results) :
                        /\ results.organic_results[j].has_snippet
                        /\ Contains(phone_number.text,
                                    Chars[results.organic_results[j].snippet]))

\* C10 witness: the knowledge-graph phone was returned although the first
\* local result and the organic snippets hold other numbers
C10_Witness ==
    /\ pc = "extracted"
    /\ KgPhone
    /\ FirstLocalPhone
    /\ results.local_results[1].phone # results.kg_phone
    /\ results.has_organic
    /\ Len(results.organic_results) = 3
    /\ phone_number = Str(Chars["03-1234-5678"])

\* the patterns, by number, that match somewhere in the snippet text t
PatternHits(t) ==
    {k \in 1..3 : re_search(phone_patterns[k], Chars[t]).found}

\* the scanned results, by number, whose snippet some pattern matches
SnippetHits ==
    {j \in 1..Len(results.organic_results) :
        /\ j <= 3
        /\ PatternHits(SnippetOf(results.organic_results[j])) # {}}

\* C11: on a response with no knowledge-graph phone and no phone in the first
\* local result, the value comes from the first three organic results only:
\* it is not-found when none of them has a snippet that a pattern matches
\* (whatever a fourth result holds); otherwise it is, for the first of them
\* with such a snippet, the leftmost match of the lowest-numbered pattern that
\* matches in that snippet, even where a later pattern matches further left.
C11_FirstSnippetFirstPattern ==
    (pc = "extracted" /\ ~KgPhone /\ ~FirstLocalPhone)
    => IF ~results.has_organic \/ SnippetHits = {}
       THEN phone_number = NOT_FOUND
       ELSE \E j \in SnippetHits, k \in 1..3 :
               /\ \A i \in SnippetHits : j <= i
               /\ k \in PatternHits(SnippetOf(results.organic_results[j]))
               /\ \A m \in PatternHits(SnippetOf(results.organic_results[j])) : k <= m
               /\ phone_number =
                      Str(re_search(phone_patterns[k],
                                    Chars[SnippetOf(results.organic_results[j])]).group)

\* C11 witness: in "id 12345678901234 ref 03-55-6789" the third pattern
\* matches at the digits on the left, and the first pattern's match further
\* right was returned
C11_Witness ==
    /\ pc = "extracted"
    /\ ~KgPhone
    /\ ~FirstLocalPhone
    /\ results.has_organic
    /\ results.organic_results = <<Snippet("id 12345678901234 ref 03-55-6789")>>
    /\ PatternHits("id 12345678901234 ref 03-55-6789") = {1, 3}
    /\ phone_number = Str(<<"0", "3", "-", "5", "5", "-", "6", "7", "8", "9">>)

\* the exception texts holding "quota" or "limit" in some case, or "429"
QuotaExceptions == {"429 Too Many Requests", "Daily Limit hit"}

\* C12: a pass of the loop whose request raises: when the text of the
\* exception holds "quota" or "limit" in any case, or "429", the current index
\* is marked failed and, if an index is left, the loop goes on with that
\* index's key, else the call returns the all-keys-exhausted text from inside
\* the loop, as for an error field of the quota class; for any other text the
\* call returns the error of that text and the pass leaves index and failed
\* set as they were.
C12_TransportErrorClassified ==
    [][(pc = "request" /\ results'.raises)
       => (/\ Len(requests') = Len(requests) + 1
           /\ IF results'.exc_text \in QuotaExceptions
              THEN /\ failed_api_keys' = failed_api_keys \cup {current_api_key_index}
                   /\ pool_log'.rotations = pool_log.rotations + 1
                   /\ IF Indices \ failed_api_keys' # {}
                      THEN /\ pc' = "request"
                           /\ pool_log'.rotate_ok
                           /\ current_api_key_index' \in Indices \ failed_api_keys'
                           /\ current_key' = API_KEYS[current_api_key_index' + 1]
                      ELSE /\ pc' = "returned"
                           /\ ~pool_log'.rotate_ok
                           /\ phone_number' = ALL_KEYS_EXHAUSTED
                           /\ exit' = "in_loop"
              ELSE /\ pc' = "returned"
                   /\ phone_number' = TransportError(results'.exc_text)
                   /\ exit' = "in_loop"
                   /\ pool_log'.rotations = pool_log.rotations
                   /\ current_api_key_index' = current_api_key_index
                   /\ failed_api_keys' = failed_api_keys)]_vars

\* C12 witness: the request with key 0 raised "429 Too Many Requests" and the
\* call is in its loop on key 1
C12_Witness ==
    /\ pc = "request"
    /\ Len(requests) = 1
    /\ results.raises
    /\ results.exc_text = "429 Too Many Requests"
    /\ failed_api_keys = {0}
    /\ current_api_key_index = 1
    /\ current_key = API_KEYS[2]

\* row i of the uploaded sheet has a store name and nothing in column 11
ToResolve(i) ==
    /\ uploaded_file.rows[i].store_name.kind = "str"
    /\ uploaded_file.rows[i].store_name.text # <<>>
    /\ ~uploaded_file.has_k \/ uploaded_file.rows[i].k = NoneValue

\* C13: the calls of search_phone_number are made in row order, at most one
\* for a row; every row with a store name and an empty column-11 cell that
\* the loop has passed has its call, whatever the calls before it returned
\* (an error text, not-found or the all-keys-exhausted text included); the
\* run then reaches the save, and the saved cell of such a row holds the
\* value its call returned.
C13_EveryRowResolved ==
    /\ \A a, b \in 1..Len(calls) : a < b => calls[a].row < calls[b].row
    /\ \A i \in 1..Len(uploaded_file.rows) :
          ToResolve(i)
          => (/\ pc # "raised"
              /\ (pc \in {"rows", "saved"} /\ i <= idx)
                 => \E a \in 1..Len(calls) :
                        /\ calls[a].row = i
                        /\ i \in searched
                        /\ GetPhone(df, i) = calls[a].value
                        /\ pc = "saved" => output[i] = calls[a].value)
    /\ pc = "saved" => idx = Len(uploaded_file.rows)

\* C13 witness: the call for row 1 returned a transport error, the call for
\* row 2 was made all the same and returned a phone, and both values were
\* saved
C13_Witness ==
    /\ pc = "saved"
    /\ Len(calls) = 2
    /\ calls[1].row = 1
    /\ calls[1].value.kind = "error"
    /\ calls[2].row = 2
    /\ calls[2].value.kind = "str"
    /\ output = <<calls[1].value, calls[2].value>>

\* C14: with an empty key list every call returns the no-key text before any
\* request, never the all-keys-exhausted text, and the index and the failed
\* set stay as loaded.
C14_NoKeysNoRequest ==
    Len(API_KEYS) = 0
    => (/\ pc # "request"
        /\ requests = <<>>
        /\ current_api_key_index = 0
        /\ failed_api_keys = {}
        /\ pool_log.rotations = 0
        /\ pc = "returned" => (phone_number = API_KEY_UNSET /\ exit = "no_keys")
        /\ \A i \in 1..Len(calls) :
              calls[i].value = API_KEY_UNSET /\ calls[i].requests = 0)

\* C14 witness: two calls in a row returned the no-key text, and it was saved
\* for both rows
C14_Witness ==
    /\ Len(API_KEYS) = 0
    /\ pc = "saved"
    /\ Len(calls) = 2
    /\ calls[1].value = API_KEY_UNSET
    /\ calls[2].value = API_KEY_UNSET
    /\ output = <<API_KEY_UNSET, API_KEY_UNSET>>

\* the keys among the values of the slots, in slot order
Configured(slots) == SelectSeq(slots, LAMBDA v : v \in Keys)

\* C15: the loaded list holds at most 10 keys and is the keys of one source
\* in slot order: those of st.secrets when every read of it succeeds, those
\* of the environment when a read of st.secrets raises, at whatever slot.
C15_SingleSource ==
    pc = "loaded"
    => (/\ Len(API_KEYS) <= 10
        /\ API_KEYS = IF secrets.raises_at = 0
                      THEN Configured(secrets.slots)
                      ELSE Configured(environ))

\* C16: every request is issued with the key at the current index, and that
\* index is in range and not in the failed set when the request is issued;
\* the failed set never loses an index.  So an index once marked failed is
\* not used for a request again, in the same call or in a later one.
C16_RequestsUseUnfailedIndex ==
    [][/\ failed_api_keys \subseteq failed_api_keys'
       /\ Len(requests') = Len(requests) + 1
          => (/\ current_api_key_index \in Indices
              /\ current_api_key_index \notin failed_api_keys
              /\ current_key = API_KEYS[current_api_key_index + 1]
              /\ requests'[Len(requests')] =
                     [index |-> current_api_key_index, key |-> current_key])]_vars

\* C16 witness: index 0 was marked failed in the first call; the first
\* request of the second call was issued with key 1
C16_Witness ==
    /\ Len(calls) = 1
    /\ calls[1].requests = 2
    /\ calls[1].value.kind = "str"
    /\ Len(requests) = 1
    /\ requests[1].index = 1
    /\ requests[1].key = API_KEYS[2]
    /\ 0 \in failed_api_keys

C18_LoopNeverRunsOut ==
    /\ exit # "fall_through"
    /\ \A i \in 1..Len(calls) : calls[i].exit # "fall_through"
    /\ pc = "request" => (retry = Len(requests) /\ retry < Len(API_KEYS))
    /\ (pc = "returned" /\ requests # <<>>)
       => (/\ exit = "in_loop"
           /\ phone_number = ALL_KEYS_EXHAUSTED
              => (~pool_log.rotate_ok /\ failed_api_keys = Indices))

\* C18 witness: a call entered on index 0 of three with index 0 already in
\* the failed set used all three passes, and the third returned from inside
\* the loop
C18_Witness ==
    /\ pc = "returned"
    /\ Len(API_KEYS) = 3
    /\ entry_pool.index = 0
    /\ entry_pool.failed = {0}
    /\ Len(requests) = 3
    /\ retry = 2
    /\ phone_number = ALL_KEYS_EXHAUSTED
    /\ exit = "in_loop"

\* C19: in every state that calls of get_current_api_key and
\* switch_to_next_api_key reach from the loaded state of N >= 1 keys (index
\* 0, nothing failed), the index is in 0..N-1, the failed set holds indices of
\* 0..N-1 only, and the index is in the failed set only when every index is;
\* so the test of line 56 is false whenever it is made, and a call of
\* get_current_api_key leaves the index as it was.
C19_IndexInRange ==
    /\ [](pool_log.start_index = 0 /\ pool_log.start_failed = {}
          => (/\ Len(API_KEYS) >= 1
              /\ current_api_key_index \in 0..(Len(API_KEYS) - 1)
              /\ ~(current_api_key_index >= Len(API_KEYS))
              /\ failed_api_keys \subseteq 0..(Len(API_KEYS) - 1)
              /\ current_api_key_index \in failed_api_keys
                 => failed_api_keys = 0..(Len(API_KEYS) - 1)))
    /\ [][(pool_log.start_index = 0 /\ pool_log.start_failed = {}
           /\ pool_log'.rotations = pool_log.rotations)
          => current_api_key_index' = current_api_key_index]_vars

\* C19 witness: two rotations of a loaded pool of three left index 2 current
\* and not failed, and get_current_api_key returned its key
C19_Witness ==
    /\ pc = "pool"
    /\ pool_log.start_index = 0
    /\ pool_log.start_failed = {}
    /\ Len(API_KEYS) = 3
    /\ pool_log.rotations = 2
    /\ current_api_key_index = 2
    /\ failed_api_keys = {0, 1}
    /\ pool_log.current = API_KEYS[3]

====
